---- MODULE Spec2Model ----
(***************************************************************************)
(* Session/step store, parallel dispatch and command surface of llm-call.  *)
(*                                                                         *)
(* Representation.  A Python string is a sequence of one-character         *)
(* strings ("" is << >>).  A directory is a function from entry names to   *)
(* entries.  A step directory name is the decimal digit string str(n),     *)
(* a sequence of digits.  An artifact file name is << key, ".md" >>.       *)
(* A session id  s_<YYYYmmdd_HHMMSS>_<pid>  is the pair << second, pid >>. *)
(* An optional value is a sequence of length at most one (<< >> is None).  *)
(* Text files are written and read as on POSIX (os.linesep = "\n").        *)
(***************************************************************************)
EXTENDS Integers, Sequences, FiniteSets, TLC

\* ---------------------------------------------------------------- bounds
\* the wall clock shows the seconds 0..MaxClock
MaxClock == 1
\* create_next_step is not called once current_step has reached this (SpecStore, SpecCli)
MaxStep == 2
\* the same cap in SpecSteps, where sessions grow to ten and more steps
MaxLongStep == 10
\* library calls made in one behaviour of SpecStore
MaxCalls == 3

\* processes that call the library
Pids == {1, 2}

VARIABLES
    clock,      \* datetime.now(), in whole seconds
    pid,        \* os.getpid() of the running process
    sessions,   \* config.SESSION_DIR: session id -> session directory
    current,    \* the .current marker file: << >> (no file) or << id >>
    ret,        \* what the last library call returned or raised
    calls,      \* number of library calls (SpecStore) or commands (SpecCli) so far
    pool,       \* the call_parallel in progress: its locals, executor and futures
    proc        \* the command line run last: what it did and its exit code

vars == << clock, pid, sessions, current, ret, calls, pool, proc >>

\* ------------------------------------------------------------ primitives
NoSession == << >>
EmptyDir == << >>

FS == [sessions |-> sessions, current |-> current]

\* f with key k bound to v (a file or directory created or overwritten)
Put(f, k, v) == [x \in DOMAIN f \cup {k} |-> IF x = k THEN v ELSE f[x]]

\* os.makedirs after removing what is there: an existing directory is emptied
makedirs_fresh(f, k) == Put(f, k, EmptyDir)

\* os.makedirs(path, exist_ok=True): an existing directory keeps its entries
makedirs(f, k) == IF k \in DOMAIN f THEN f ELSE Put(f, k, EmptyDir)

\* shutil.rmtree(path, ignore_errors=True)
rmtree(f, k) == [x \in DOMAIN f \ {k} |-> f[x]]

RECURSIVE str(_)
str(n) == IF n < 10 THEN << n >> ELSE str(n \div 10) \o << n % 10 >>

RECURSIVE int(_)
int(s) == IF Len(s) = 0 THEN 0 ELSE 10 * int(SubSeq(s, 1, Len(s) - 1)) + s[Len(s)]

\* a < b for Python strings of digits (code point order, shorter prefix first)
RECURSIVE LexLess(_, _)
LexLess(a, b) ==
    IF Len(b) = 0 THEN FALSE
    ELSE IF Len(a) = 0 THEN TRUE
    ELSE IF Head(a) # Head(b) THEN Head(a) < Head(b)
    ELSE LexLess(Tail(a), Tail(b))

\* sorted(names) for a set of strings
RECURSIVE sorted(_)
sorted(S) ==
    IF S = {} THEN << >>
    ELSE LET m == CHOOSE x \in S : \A y \in S \ {x} : LexLess(x, y)
         IN << m >> \o sorted(S \ {m})

\* f.write(content) in text mode
WriteText(s) == s

\* f.read() in text mode, universal newlines: "\r\n" and "\r" become "\n".
\* Dropped (no character at all) marks the "\n" of a "\r\n"
Dropped == ""

Kept(c) == c # Dropped

ReadText(s) ==
    SelectSeq([i \in 1..Len(s) |->
                  IF s[i] = "\n" /\ i > 1 /\ s[i - 1] = "\r" THEN Dropped
                  ELSE IF s[i] = "\r" THEN "\n"
                  ELSE s[i]],
              Kept)

\* ----------------------------------------------------------- session.py
session_id_of(now, p) == << now, p >>

\* the metadata of a new session without its current step
NewMetadata_created_only(now) == ("created" :> now)

NewMetadata(now) == ("created" :> now) @@ ("current_step" :> 1)

\* new_session that starts from an empty session directory
new_session_fresh(D, now, p) ==
    LET id == session_id_of(now, p)
        dir == [metadata |-> << NewMetadata(now) >>, steps |-> makedirs(EmptyDir, str(1))]
    IN [ret |-> id,
        D |-> [sessions |-> Put(D.sessions, id, dir), current |-> << id >>]]

new_session(D, now, p) ==
    LET id == session_id_of(now, p)
        old == IF id \in DOMAIN D.sessions
               THEN D.sessions[id]
               ELSE [metadata |-> << >>, steps |-> EmptyDir]
        dir == [metadata |-> << NewMetadata(now) >>,
                steps |-> makedirs(old.steps, str(1))]
    IN [ret |-> id,
        D |-> [sessions |-> Put(D.sessions, id, dir), current |-> << id >>]]

get_current_session(D) == D.current

\* [ok |-> FALSE] stands for the ValueError
get_session_path(D, session_id) ==
    LET sid == IF session_id = NoSession THEN get_current_session(D) ELSE << session_id >>
    IN IF sid = << >> THEN [ok |-> FALSE, id |-> NoSession]
       ELSE IF sid[1] \notin DOMAIN D.sessions THEN [ok |-> FALSE, id |-> sid[1]]
       ELSE [ok |-> TRUE, id |-> sid[1]]

\* clear_session that removes the current-session marker whatever it names
clear_session_marker(D, session_id) ==
    LET p == get_session_path(D, session_id)
    IN IF ~p.ok THEN [ok |-> FALSE, D |-> D]
       ELSE [ok |-> TRUE, D |-> [sessions |-> rmtree(D.sessions, p.id), current |-> << >>]]

\* clear_session that removes the container and leaves the marker alone
clear_session_dir_only(D, session_id) ==
    LET p == get_session_path(D, session_id)
    IN IF ~p.ok THEN [ok |-> FALSE, D |-> D]
       ELSE [ok |-> TRUE, D |-> [sessions |-> rmtree(D.sessions, p.id), current |-> D.current]]

clear_session(D, session_id) ==
    LET p == get_session_path(D, session_id)
        removed == rmtree(D.sessions, p.id)
        cur == get_current_session(D)
    IN IF ~p.ok THEN [ok |-> FALSE, D |-> D]
       ELSE [ok |-> TRUE,
             D |-> [sessions |-> removed,
                    current |-> IF cur = << session_id >> \/ session_id = NoSession
                                THEN << >> ELSE D.current]]

MetaCurrentStep(dir) ==
    IF dir.metadata # << >>
    THEN IF "current_step" \in DOMAIN dir.metadata[1]
         THEN dir.metadata[1]["current_step"] ELSE 1
    ELSE 1

\* defined for an existing session (get_session_path did not raise)
get_current_step(D, session_id) ==
    MetaCurrentStep(D.sessions[get_session_path(D, session_id).id])

create_next_step(D, session_id, now) ==
    LET p == get_session_path(D, session_id)
        dir == D.sessions[p.id]
        current_step == MetaCurrentStep(dir)
        next_step == current_step + 1
        metadata == IF dir.metadata # << >> THEN dir.metadata[1] ELSE ("created" :> now)
        written == Put(Put(metadata, "current_step", next_step), "last_updated", now)
    IN IF ~p.ok THEN [ok |-> FALSE, ret |-> 0, D |-> D]
       ELSE [ok |-> TRUE, ret |-> next_step,
             D |-> [sessions |-> Put(D.sessions, p.id,
                                     [metadata |-> << written >>,
                                      steps |-> makedirs(dir.steps, str(next_step))]),
                    current |-> D.current]]

FileName(key) == << key, ".md" >>

\* save_step_data without the "if content" test: empty values are written too
WrittenKeys_all(data) == DOMAIN data

\* the keys of data that get written: their content is non-empty
WrittenKeys(data) == {k \in DOMAIN data : data[k] # << >>}

save_step_data(D, step, data, session_id) ==
    LET p == get_session_path(D, session_id)
        dir == D.sessions[p.id]
        steps1 == makedirs(dir.steps, str(step))
        old == steps1[str(step)]
        files == [f \in DOMAIN old \cup {FileName(k) : k \in WrittenKeys(data)} |->
                    IF \E k \in WrittenKeys(data) : f = FileName(k)
                    THEN WriteText(data[f[1]])
                    ELSE old[f]]
    IN IF ~p.ok THEN [ok |-> FALSE, D |-> D]
       ELSE [ok |-> TRUE,
             D |-> [sessions |-> Put(D.sessions, p.id,
                                     [metadata |-> dir.metadata,
                                      steps |-> Put(steps1, str(step), files)]),
                    current |-> D.current]]

\* the data dict load_step_data builds from a step directory
LoadDir(stepdir) ==
    LET mds == {f \in DOMAIN stepdir : f[Len(f)] = ".md"}
    IN [k \in {SubSeq(f, 1, Len(f) - 1)[1] : f \in mds} |-> ReadText(stepdir[FileName(k)])]

\* defined for an existing session
load_step_data(D, step, session_id) ==
    LET dir == D.sessions[get_session_path(D, session_id).id]
    IN IF str(step) \in DOMAIN dir.steps THEN LoadDir(dir.steps[str(step)]) ELSE << >>

\* defined for an existing session; every entry of steps is a digit-named directory
get_session_context(D, session_id) ==
    LET dir == D.sessions[get_session_path(D, session_id).id]
        items == sorted(DOMAIN dir.steps)
    IN [i \in 1..Len(items) |->
          [step |-> int(items[i]), data |-> load_step_data(D, int(items[i]), session_id)]]

\* ------------------------------------------------- config.py, models.py
\* config.py is not among the sources: its values are taken from the
\* specification (keys "gpt", "gemini", "grok") and from the usage in src/.
ALL_KEYS == << "gpt", "gemini", "grok" >>

MODELS == ("gpt" :> "backend/gpt") @@ ("gemini" :> "backend/gemini") @@ ("grok" :> "backend/grok")

MODEL_NAMES == ("gpt" :> "GPT") @@ ("gemini" :> "Gemini") @@ ("grok" :> "Grok")

MAX_WORKERS == 2

Range(seq) == {seq[i] : i \in 1..Len(seq)}

\* key.lower(), for the keys the model uses
lower(key) == IF key = "GPT" THEN "gpt" ELSE key

resolve(key) == IF lower(key) \in DOMAIN MODELS THEN MODELS[lower(key)] ELSE key

name(key) == IF lower(key) \in DOMAIN MODEL_NAMES THEN MODEL_NAMES[lower(key)] ELSE key

\* ---------------------------------------------------------------- api.py
\* the tags, character by character
OpenTag == << "<", "t", "h", "i", "n", "k", ">" >>
CloseTag == << "<", "/", "t", "h", "i", "n", "k", ">" >>

IsSpace(c) == c \in {" ", "\n", "\r", "\t"}

RECURSIVE SkipSpace(_)
SkipSpace(s) == IF Len(s) > 0 /\ IsSpace(Head(s)) THEN SkipSpace(Tail(s)) ELSE s

\* t occurs in s at position i
At(s, i, t) == i + Len(t) - 1 <= Len(s) /\ SubSeq(s, i, i + Len(t) - 1) = t

\* position of the first "</think>" of s, 0 when there is none
FirstClose(s) ==
    IF \E j \in 1..Len(s) : At(s, j, CloseTag)
    THEN CHOOSE j \in 1..Len(s) :
            At(s, j, CloseTag) /\ \A i \in 1..(j - 1) : ~At(s, i, CloseTag)
    ELSE 0

\* the pattern '<think>.*?</think>\s*' matches at position i of s
MatchAt(s, i) ==
    At(s, i, OpenTag) /\ FirstClose(SubSeq(s, i + Len(OpenTag), Len(s))) > 0

\* position of the leftmost match in s, 0 when there is none
FirstMatch(s) ==
    IF \E i \in 1..Len(s) : MatchAt(s, i)
    THEN CHOOSE i \in 1..Len(s) : MatchAt(s, i) /\ \A j \in 1..(i - 1) : ~MatchAt(s, j)
    ELSE 0

\* what follows a match, rest being the text after its "<think>": the text
\* after the first "</think>" and the whitespace behind it
AfterMatch(rest) ==
    SkipSpace(SubSeq(rest, FirstClose(rest) + Len(CloseTag), Len(rest)))

\* re.sub(r'<think>.*?</think>\s*', '', content, flags=re.DOTALL): one scan
\* from left to right; the text before the leftmost match is copied as it
\* is, and the scan goes on behind the match
RECURSIVE strip_think_tags(_)
strip_think_tags(content) ==
    IF FirstMatch(content) = 0 THEN content
    ELSE SubSeq(content, 1, FirstMatch(content) - 1)
         \o strip_think_tags(
                AfterMatch(SubSeq(content, FirstMatch(content) + Len(OpenTag), Len(content))))

\* an answer that is only a think block
ThinkBlock == OpenTag \o << "x", "\n" >> \o CloseTag \o << "\n" >>

\* What the endpoint does with one request: it answers with content, the
\* request fails (HTTP, URL, timeout, malformed body: call_llm returns a
\* failure), or an exception is raised inside the caller's try block.
Outcomes ==
    { [kind |-> "content", content |-> << "r" >>],
      [kind |-> "content", content |-> ThinkBlock],
      [kind |-> "error"],
      [kind |-> "raise"] }

\* call_llm for the outcomes "content" and "error"
call_llm(model, prompt, out) ==
    IF out.kind = "content"
    THEN [success |-> TRUE, content |-> strip_think_tags(out.content), model |-> model]
    ELSE [success |-> FALSE, error |-> "HTTP 500", model |-> model]

\* ------------------------------------------------------------- caller.py
CaughtFailure(key) ==
    [success |-> FALSE, error |-> "exception", key |-> key, name |-> name(key)]

Tagged(result, key) == result @@ [key |-> key, name |-> name(key)]

\* what the worker's future ends up holding: _call_single returns, never raises
_call_single(key, prompt, out) ==
    IF out.kind = "raise"
    THEN [raised |-> FALSE, value |-> CaughtFailure(key)]
    ELSE [raised |-> FALSE, value |-> Tagged(call_llm(resolve(key), prompt, out), key)]

\* call whose except branch leaves the failure untagged
call_untagged(key, prompt, out) ==
    IF out.kind = "raise"
    THEN [success |-> FALSE, error |-> "exception"]
    ELSE Tagged(call_llm(resolve(key), prompt, out), key)

\* call(key, prompt, label)
call(key, prompt, out) ==
    IF out.kind = "raise"
    THEN CaughtFailure(key)
    ELSE Tagged(call_llm(resolve(key), prompt, out), key)

CONFIDENCE_SUFFIX == << "\n", "\n", "---", "\n", "rate your confidence" >>

\* the keys of {k: prompts for k in keys}, in insertion order
RECURSIVE DictOrder(_)
DictOrder(keys) ==
    IF Len(keys) = 0 THEN << >>
    ELSE LET front == DictOrder(SubSeq(keys, 1, Len(keys) - 1))
             last == keys[Len(keys)]
         IN IF last \in Range(front) THEN front ELSE Append(front, last)

\* lines 66-76: prompts is [str |-> prompt, keys |-> list or << >> for None]
\* or [dict |-> key -> prompt, order |-> its keys in insertion order]
prompt_dict_of(prompts, add_confidence) ==
    LET order == IF "str" \in DOMAIN prompts
                 THEN DictOrder(IF prompts.keys # << >> THEN prompts.keys ELSE ALL_KEYS)
                 ELSE prompts.order
        base == IF "str" \in DOMAIN prompts
                THEN [k \in Range(order) |-> prompts.str]
                ELSE prompts.dict
    IN [order |-> order,
        dict |-> IF add_confidence
                 THEN [k \in DOMAIN base |-> base[k] \o CONFIDENCE_SUFFIX]
                 ELSE base]

\* max in the place of min
min_as_max(a, b) == IF a < b THEN b ELSE a

min(a, b) == IF a < b THEN a ELSE b

PoolIdle ==
    [pc |-> "idle", order |-> << >>, prompt_dict |-> << >>, max_workers |-> 0,
     submitted |-> 0, queue |-> << >>, running |-> {}, futures |-> << >>,
     outcome |-> << >>, yielded |-> {}, results |-> << >>]

\* call_parallel up to the creation of the executor (lines 48-82)
CallParallel(prompts, add_confidence) ==
    LET pd == prompt_dict_of(prompts, add_confidence)
    IN /\ pool.pc = "idle"
       /\ Len(pd.order) > 0
       /\ pool' = [PoolIdle EXCEPT !.pc = "submitting", !.order = pd.order,
                                   !.prompt_dict = pd.dict,
                                   !.max_workers = min(MAX_WORKERS, Len(pd.order))]

\* one round of the submit loop (lines 84-86)
Submit ==
    /\ pool.pc = "submitting"
    /\ LET key == pool.order[pool.submitted + 1]
       IN pool' = [pool EXCEPT !.submitted = @ + 1,
                               !.queue = Append(@, key),
                               !.futures = Put(@, key, [state |-> "pending"]),
                               !.pc = IF pool.submitted + 1 = Len(pool.order)
                                      THEN "collecting" ELSE "submitting"]

\* a free worker thread takes the oldest queued work item and starts the call
Start ==
    /\ pool.pc \in {"submitting", "collecting"}
    /\ Len(pool.queue) > 0
    /\ Cardinality(pool.running) < pool.max_workers
    /\ LET key == Head(pool.queue)
       IN pool' = [pool EXCEPT !.queue = Tail(@),
                               !.running = @ \cup {key},
                               !.futures = Put(@, key, [state |-> "running"])]

\* the call of key ends with outcome out; the worker sets the future
Finish(key, out) ==
    /\ key \in pool.running
    /\ LET done == _call_single(key, pool.prompt_dict[key], out)
       IN pool' = [pool EXCEPT !.running = @ \ {key},
                               !.outcome = Put(@, key, out),
                               !.futures = Put(@, key, [state |-> "finished",
                                                        raised |-> done.raised,
                                                        value |-> done.value])]

\* results[key] = result (line 95), without failures
record_result_success_only(results, key, result) ==
    IF result.success THEN Put(results, key, result) ELSE results

\* results[key] = result (line 95)
record_result(results, key, result) == Put(results, key, result)

\* future.result() inside try/except Exception (lines 90-93)
future_result(key, future) ==
    IF future.raised THEN CaughtFailure(key) ELSE future.value

\* the loop body with a failure raised out of the loop
Collect_abort(key) ==
    /\ pool.pc = "collecting"
    /\ key \in DOMAIN pool.futures
    /\ pool.futures[key].state = "finished"
    /\ key \notin pool.yielded
    /\ LET result == future_result(key, pool.futures[key])
       IN pool' = [pool EXCEPT !.yielded = @ \cup {key},
                               !.results = record_result(@, key, result),
                               !.pc = IF result.success THEN "collecting" ELSE "raised"]

\* one round of the as_completed loop (lines 88-97): a finished future that
\* was not yielded yet is yielded and its result recorded
Collect(key) ==
    /\ pool.pc = "collecting"
    /\ key \in DOMAIN pool.futures
    /\ pool.futures[key].state = "finished"
    /\ key \notin pool.yielded
    /\ LET result == future_result(key, pool.futures[key])
       IN pool' = [pool EXCEPT !.yielded = @ \cup {key},
                               !.results = record_result(@, key, result)]

\* call_parallel returning after the first result, calls still in flight
Return_first ==
    /\ pool.pc = "collecting"
    /\ pool.yielded # {}
    /\ pool' = [pool EXCEPT !.pc = "returned"]

\* as_completed is exhausted, the executor is shut down (wait=True), and
\* call_parallel returns results (line 99)
Return ==
    /\ pool.pc = "collecting"
    /\ pool.yielded = Range(pool.order)
    /\ pool.running = {} /\ pool.queue = << >>
    /\ pool' = [pool EXCEPT !.pc = "returned"]

AllKeys == Range(ALL_KEYS)

\* the mapping call_parallel returns when the calls end with the outcomes outs
call_parallel(prompts, add_confidence, outs) ==
    LET pd == prompt_dict_of(prompts, add_confidence)
    IN [k \in Range(pd.order) |-> future_result(k, _call_single(k, pd.dict[k], outs[k]))]

\* -------------------------------------------------------------- parse.py
\* the three markers are single characters of the model's strings
QUERY == "===QUERY==="
DRAFT == "===DRAFT==="
PROBE == "===PROBE==="

\* index of the first m in s, 0 when there is none
IndexOf(s, m) ==
    IF \E j \in 1..Len(s) : s[j] = m
    THEN CHOOSE j \in 1..Len(s) : s[j] = m /\ \A i \in 1..(j - 1) : s[i] # m
    ELSE 0

Contains(s, m) == IndexOf(s, m) > 0

\* s.split(m, 1)[0] and [1], for m in s
Before(s, m) == SubSeq(s, 1, IndexOf(s, m) - 1)
After(s, m) == SubSeq(s, IndexOf(s, m) + 1, Len(s))

RECURSIVE rstrip(_)
rstrip(s) == IF Len(s) > 0 /\ IsSpace(s[Len(s)]) THEN rstrip(SubSeq(s, 1, Len(s) - 1)) ELSE s

strip(s) == rstrip(SkipSpace(s))

_parse_probe_target(probe_content) ==
    LET stripped == strip(probe_content)
        line == IF Contains(stripped, "\n") THEN Before(stripped, "\n") ELSE stripped
        first_line == [i \in 1..Len(line) |-> lower(line[i])]
        found == {j \in 1..Len(ALL_KEYS) :
                    \E i \in 1..(Len(first_line) - 1) :
                        first_line[i] = "@" /\ first_line[i + 1] = ALL_KEYS[j]}
    IN IF found = {} THEN << >>
       ELSE << ALL_KEYS[CHOOSE j \in found : \A i \in found : j <= i] >>

parse_stdin(content) ==
    LET remaining == After(content, QUERY)
        draft_part == After(remaining, DRAFT)
        inner ==
            IF Contains(content, QUERY)
            THEN IF Contains(remaining, DRAFT)
                 THEN [query |-> << strip(Before(remaining, DRAFT)) >>,
                       draft |-> << strip(IF Contains(draft_part, PROBE)
                                          THEN Before(draft_part, PROBE) ELSE draft_part) >>,
                       probe_model |-> IF Contains(draft_part, PROBE)
                                       THEN _parse_probe_target(After(draft_part, PROBE))
                                       ELSE << >>]
                 ELSE IF Contains(remaining, PROBE)
                      THEN [query |-> << strip(Before(remaining, PROBE)) >>,
                            draft |-> << >>,
                            probe_model |-> _parse_probe_target(After(remaining, PROBE))]
                      ELSE [query |-> << strip(remaining) >>, draft |-> << >>,
                            probe_model |-> << >>]
            ELSE IF Contains(content, DRAFT)
                 THEN [query |-> << >>, draft |-> << strip(After(content, DRAFT)) >>,
                       probe_model |-> << >>]
                 ELSE [query |-> << >>, draft |-> << >>, probe_model |-> << >>]
    IN IF Contains(content, PROBE) /\ inner.probe_model = << >>
       THEN [inner EXCEPT !.probe_model = _parse_probe_target(After(content, PROBE))]
       ELSE inner

\* Python truth of an optional string: neither None nor ""
Truthy(opt) == opt # << >> /\ opt[1] # << >>

\* ---------------------------------------------------------------- cli.py
\* args.session is None, the literal "new" or a session id; no directory is
\* ever named "new", and NewLiteral stands for that name
NewLiteral == << -1, -1 >>
NoArg == [kind |-> "none", id |-> NoSession]
NewArg == [kind |-> "new", id |-> NewLiteral]
IdArg(id) == [kind |-> "id", id |-> id]

\* args.session or get_current_session(), << >> when falsy
session_or_current(D, session_arg) ==
    IF session_arg.kind = "none" THEN get_current_session(D) ELSE << session_arg.id >>

\* [tty |-> TRUE] is a terminal; otherwise text is what sys.stdin.read() returns
Tty == [tty |-> TRUE, text |-> << >>]
Piped(text) == [tty |-> FALSE, text |-> text]

NoData == [query |-> << >>, draft |-> << >>, probe_model |-> << >>]

\* lines 235-236 once session_id is known, D1 being the store then;
\* ok = FALSE stands for the ValueError of a session that does not exist
current_or_next(D1, session_id, next) ==
    IF ~get_session_path(D1, session_id).ok
    THEN [ok |-> FALSE, session_id |-> session_id, step |-> 0, D |-> D1]
    ELSE IF get_current_step(D1, session_id) = 1
    THEN [ok |-> TRUE, session_id |-> session_id, step |-> 1, D |-> D1]
    ELSE [ok |-> next.ok, session_id |-> session_id, step |-> next.ret, D |-> next.D]

\* lines 233-236 when there is no current session: made is what new_session did
in_new_session(made, now) ==
    current_or_next(made.D, made.ret, create_next_step(made.D, made.ret, now))

\* lines 229-232: given is what create_next_step(session_arg) did
in_given_session(session_id, given) ==
    [ok |-> given.ok, session_id |-> session_id, step |-> given.ret, D |-> given.D]

\* lines 225-228: made is what new_session did
in_forced_session(made) ==
    [ok |-> TRUE, session_id |-> made.ret, step |-> 1, D |-> made.D]

_get_or_create_session(D, session_arg, now, p) ==
    IF session_arg.kind = "new" THEN in_forced_session(new_session(D, now, p))
    ELSE IF session_arg.kind = "id"
    THEN in_given_session(session_arg.id, create_next_step(D, session_arg.id, now))
    ELSE IF get_current_session(D) # << >>
    THEN current_or_next(D, get_current_session(D)[1],
                         create_next_step(D, get_current_session(D)[1], now))
    ELSE in_new_session(new_session(D, now, p), now)

\* what a command has done when it exits or when it calls call_parallel:
\* dispatch = TRUE is the call of call_parallel(prompts, add_confidence);
\* otherwise the process has exited with the exit code, after the calls
\* whose prompts and results are recorded
Exited(code, error, D, session_id, step, data, prompts, results) ==
    [dispatch |-> FALSE, code |-> code, error |-> error, D |-> D,
     session_id |-> session_id, step |-> step, data |-> data,
     prompts |-> prompts, results |-> results, add_confidence |-> FALSE]

Refused(error, D) == Exited(1, error, D, NoSession, 0, NoData, << >>, << >>)

Dispatch(D, session_id, step, data, prompts, add_confidence) ==
    [dispatch |-> TRUE, code |-> 0, error |-> "", D |-> D,
     session_id |-> session_id, step |-> step, data |-> data,
     prompts |-> prompts, results |-> << >>, add_confidence |-> add_confidence]

RECURSIVE Join(_, _)
Join(parts, sep) ==
    IF Len(parts) = 0 THEN << >>
    ELSE IF Len(parts) = 1 THEN parts[1]
    ELSE parts[1] \o sep \o Join(Tail(parts), sep)

\* {"draft": data["draft"]} if data["draft"] else {}
draft_of(data) == IF Truthy(data.draft) THEN ("draft" :> data.draft[1]) ELSE << >>

\* cmd_single, lines 38-49: result is what call returned
single_called(key, data, g, result) ==
    IF ~result.success
    THEN Exited(1, "backend", g.D, g.session_id, g.step, data,
                (key :> data.query[1]), (key :> result))
    ELSE Exited(0, "",
                save_step_data(g.D, g.step,
                               ("query" :> data.query[1]) @@ (key :> result.content)
                               @@ draft_of(data),
                               g.session_id).D,
                g.session_id, g.step, data, (key :> data.query[1]), (key :> result))

\* cmd_single, lines 35-36: g is what _get_or_create_session returned
single_resolved(key, data, g, out) ==
    IF ~g.ok THEN Exited(1, "ValueError", g.D, g.session_id, 0, data, << >>, << >>)
    ELSE single_called(key, data, g, call(key, data.query[1], out))

\* cmd_single, lines 25-35: data is what parse_stdin returned
single_parsed(D, args, stdin, now, p, out, data) ==
    IF args.model = << >> THEN Refused("-M required", D)
    ELSE IF stdin.tty THEN Refused("Pipe stdin", D)
    ELSE IF ~Truthy(data.query) THEN Refused("No ===QUERY=== found", D)
    ELSE single_resolved(args.model[1], data,
                         _get_or_create_session(D, args.session, now, p), out)

\* cmd_single with the backend's outcome out
cmd_single(D, args, stdin, now, p, out) ==
    single_parsed(D, args, stdin, now, p, out, parse_stdin(stdin.text))

\* cmd_council, lines 60-61: g is what _get_or_create_session returned
council_resolved(data, add_confidence, g) ==
    IF ~g.ok THEN Exited(1, "ValueError", g.D, g.session_id, 0, data, << >>, << >>)
    ELSE Dispatch(g.D, g.session_id, g.step, data,
                  [str |-> data.query[1], keys |-> << >>], add_confidence)

\* cmd_council with the session resolved before the query is checked
council_parsed_late(D, args, stdin, now, p, data) ==
    IF stdin.tty THEN Refused("Pipe stdin", D)
    ELSE IF ~Truthy(data.query)
    THEN Refused("No ===QUERY=== found", _get_or_create_session(D, args.session, now, p).D)
    ELSE council_resolved(data, args.confidence,
                          _get_or_create_session(D, args.session, now, p))

\* cmd_council, lines 54-60: data is what parse_stdin returned
council_parsed(D, args, stdin, now, p, data) ==
    IF stdin.tty THEN Refused("Pipe stdin", D)
    ELSE IF ~Truthy(data.query) THEN Refused("No ===QUERY=== found", D)
    ELSE council_resolved(data, args.confidence,
                          _get_or_create_session(D, args.session, now, p))

\* cmd_council up to the call of call_parallel (lines 54-61)
cmd_council_pre(D, args, stdin, now, p) ==
    council_parsed(D, args, stdin, now, p, parse_stdin(stdin.text))

\* the keys of the results with result["success"]
Successful(results) == {k \in DOMAIN results : results[k].success}

\* lines 67-69: step_data[key] = result["content"] for the successful results
council_contents(results) == [k \in Successful(results) |-> results[k].content]

\* line 70 and the exit: saved is what save_step_data did
council_saved(pre, prompt_dict, results, saved) ==
    Exited(IF saved.ok THEN 0 ELSE 1, IF saved.ok THEN "" ELSE "ValueError",
           saved.D, pre.session_id, pre.step, pre.data, prompt_dict, results)

\* cmd_council giving up, with nothing saved, when a model has failed
cmd_council_post_abort(D, pre, prompt_dict, results) ==
    IF Successful(results) # DOMAIN results
    THEN Exited(1, "backend", D, pre.session_id, pre.step, pre.data, prompt_dict, results)
    ELSE council_saved(pre, prompt_dict, results,
                       save_step_data(D, pre.step,
                                      ("query" :> pre.data.query[1]) @@ draft_of(pre.data)
                                      @@ council_contents(results),
                                      pre.session_id))

\* cmd_council after call_parallel returned results (lines 63-76)
cmd_council_post(D, pre, prompt_dict, results) ==
    council_saved(pre, prompt_dict, results,
                  save_step_data(D, pre.step,
                                 ("query" :> pre.data.query[1]) @@ draft_of(pre.data)
                                 @@ council_contents(results),
                                 pre.session_id))

\* the decimal digits of n as characters
Chars(n) ==
    [i \in 1..Len(str(n)) |->
        << "0", "1", "2", "3", "4", "5", "6", "7", "8", "9" >>[str(n)[i] + 1]]

\* a response in the probe context is cut after ProbeLimit characters (line 106)
ProbeLimit == 800

\* the cut applied from ProbeLimit characters on
Truncated_from_limit(text) ==
    IF Len(text) >= ProbeLimit
    THEN SubSeq(text, 1, ProbeLimit) \o << ".", ".", "." >>
    ELSE text

Truncated(text) ==
    IF Len(text) > ProbeLimit
    THEN SubSeq(text, 1, ProbeLimit) \o << ".", ".", "." >>
    ELSE text

\* lines 104-107, for the keys of keys in order
RECURSIVE ModelLines(_, _)
ModelLines(step_data, keys) ==
    IF Len(keys) = 0 THEN << >>
    ELSE (IF keys[1] \in DOMAIN step_data
          THEN << << name(keys[1]), ": " >> \o Truncated(step_data[keys[1]]) >>
          ELSE << >>)
         \o ModelLines(step_data, Tail(keys))

\* lines 100-107, for the steps of infos in order
RECURSIVE StepLines(_)
StepLines(infos) ==
    IF Len(infos) = 0 THEN << >>
    ELSE << << "--- Step " >> \o Chars(infos[1].step) \o << " ---" >> >>
         \o (IF "query" \in DOMAIN infos[1].data
             THEN << << "Q: " >> \o infos[1].data["query"] >> ELSE << >>)
         \o ModelLines(infos[1].data, ALL_KEYS)
         \o StepLines(Tail(infos))

\* the prompt cmd_probe sends (lines 98-110)
probe_prompt(D, session_id, query) ==
    Join(StepLines(get_session_context(D, session_id))
         \o << << "\n", "--- New Q ---", "\n" >> \o query >>,
         << "\n", "\n" >>)

\* cmd_probe, lines 116-119: next is what create_next_step did
probe_stepped(session_id, target, data, prompt, result, next) ==
    Exited(0, "",
           save_step_data(next.D, next.ret,
                          ("query" :> data.query[1]) @@ (target :> result.content),
                          session_id).D,
           session_id, next.ret, data, (target :> prompt), (target :> result))

\* cmd_probe, lines 111-115: result is what call returned
probe_called(D, session_id, target, data, now, prompt, result) ==
    IF ~result.success
    THEN Exited(1, "backend", D, session_id, 0, data, (target :> prompt), (target :> result))
    ELSE probe_stepped(session_id, target, data, prompt, result,
                       create_next_step(D, session_id, now))

\* cmd_probe, line 110: prompt is the joined context
probe_context(D, session_id, target, data, now, out, prompt) ==
    probe_called(D, session_id, target, data, now, prompt, call(target, prompt, out))

\* cmd_probe, lines 92-110: target and sid are the locals target and session_id
probe_target(D, sid, target, data, now, out) ==
    IF target = << >> THEN Refused("Specify model", D)
    ELSE IF sid = << >> THEN Refused("No session", D)
    ELSE IF ~get_session_path(D, sid[1]).ok
    THEN Exited(1, "ValueError", D, sid[1], 0, data, << >>, << >>)
    ELSE probe_context(D, sid[1], target[1], data, now, out,
                       probe_prompt(D, sid[1], data.query[1]))

\* cmd_probe, lines 81-92: data is what parse_stdin returned
probe_parsed(D, args, stdin, now, out, data) ==
    IF stdin.tty THEN Refused("Pipe stdin", D)
    ELSE IF ~Truthy(data.query) THEN Refused("No ===QUERY=== found", D)
    ELSE probe_target(D, session_or_current(D, args.session),
                      IF args.model # << >> THEN args.model ELSE data.probe_model,
                      data, now, out)

\* cmd_probe with the backend's outcome out
cmd_probe(D, args, stdin, now, out) ==
    probe_parsed(D, args, stdin, now, out, parse_stdin(stdin.text))

\* f"{key}_crossref"
crossref_name(key) ==
    CASE key = "gpt" -> "gpt_crossref"
      [] key = "gemini" -> "gemini_crossref"
      [] key = "grok" -> "grok_crossref"

\* lines 159-161 without the test k != key
RECURSIVE OtherLines_all(_, _, _)
OtherLines_all(key, model_responses, keys) ==
    IF Len(keys) = 0 THEN << >>
    ELSE (IF Truthy(model_responses[keys[1]])
          THEN << << name(keys[1]), ": " >> \o model_responses[keys[1]][1] >>
          ELSE << >>)
         \o OtherLines_all(key, model_responses, Tail(keys))

\* lines 159-161, for the keys of keys in order
RECURSIVE OtherLines(_, _, _)
OtherLines(key, model_responses, keys) ==
    IF Len(keys) = 0 THEN << >>
    ELSE (IF keys[1] # key /\ Truthy(model_responses[keys[1]])
          THEN << << name(keys[1]), ": " >> \o model_responses[keys[1]][1] >>
          ELSE << >>)
         \o OtherLines(key, model_responses, Tail(keys))

\* lines 156-170 once others is built
crossref_parts(key, query, model_responses, others) ==
    Join((IF query # << >> THEN << << "Original Q: " >> \o query >> ELSE << >>)
         \o (IF Truthy(model_responses[key])
             THEN << << "\n", "Your previous answer:", "\n" >> \o model_responses[key][1] >>
             ELSE << >>)
         \o << << "\n", "Other responses:", "\n" >> \o Join(others, << "\n" >>) >>
         \o << << "\n", "---", "\n", "Comment on others' responses." >> >>,
         << "\n" >>)

\* prompts[key] of cmd_crossref (lines 156-170); query and draft are "" when
\* the step has none, a model's entry is None (<< >>) when it has no response
crossref_prompt(key, query, draft, model_responses) ==
    crossref_parts(key, query, model_responses,
                   (IF draft # << >> THEN << << "Claude", ": " >> \o draft >> ELSE << >>)
                   \o OtherLines(key, model_responses, ALL_KEYS))

\* step_data.get(key, "")
get(step_data, key) == IF key \in DOMAIN step_data THEN step_data[key] ELSE << >>

\* the prompts cmd_crossref builds from the step's data (lines 139-170)
crossref_prompts(step_data) ==
    [key \in AllKeys |->
        crossref_prompt(key, get(step_data, "query"), get(step_data, "draft"),
                        [k \in AllKeys |->
                            IF k \in DOMAIN step_data THEN << step_data[k] >> ELSE << >>])]

\* cmd_crossref, lines 139-172: D1 is the store and step_data the local then
crossref_checked(D1, session_id, current_step, data, step_data) ==
    IF (\A k \in AllKeys : get(step_data, k) = << >>) /\ get(step_data, "draft") = << >>
    THEN Exited(1, "Need at least 1 response", D1, session_id, current_step,
                data, << >>, << >>)
    ELSE IF get(step_data, "draft") = << >>
    THEN Exited(1, "No draft found", D1, session_id, current_step, data, << >>, << >>)
    ELSE Dispatch(D1, session_id, current_step, data,
                  [dict |-> crossref_prompts(step_data), order |-> ALL_KEYS], FALSE)

\* cmd_crossref, lines 132-137: step_data is what load_step_data returned
crossref_loaded(D, session_id, current_step, data, step_data) ==
    IF Truthy(data.draft) /\ "draft" \notin DOMAIN step_data
    THEN crossref_checked(
             save_step_data(D, current_step, ("draft" :> data.draft[1]), session_id).D,
             session_id, current_step, data, Put(step_data, "draft", data.draft[1]))
    ELSE crossref_checked(D, session_id, current_step, data, step_data)

\* cmd_crossref, lines 129-134: current_step is what get_current_step returned
crossref_stepped(D, session_id, stdin, current_step) ==
    crossref_loaded(D, session_id, current_step,
                    IF stdin.tty THEN NoData ELSE parse_stdin(stdin.text),
                    load_step_data(D, current_step, session_id))

\* cmd_crossref, lines 124-129: sid is the local session_id
crossref_session(D, stdin, sid) ==
    IF sid = << >> THEN Refused("No session", D)
    ELSE IF ~get_session_path(D, sid[1]).ok
    THEN Exited(1, "ValueError", D, sid[1], 0, NoData, << >>, << >>)
    ELSE crossref_stepped(D, sid[1], stdin, get_current_step(D, sid[1]))

\* cmd_crossref up to the call of call_parallel (lines 124-172); the step of
\* the result is the step read
cmd_crossref_pre(D, args, stdin) ==
    crossref_session(D, stdin, session_or_current(D, args.session))

\* lines 177-179: new_step_data[f"{key}_crossref"] = result["content"] for the
\* successful results
crossref_contents(results) ==
    [l \in {crossref_name(k) : k \in Successful(results)} |->
        results[CHOOSE k \in Successful(results) : crossref_name(k) = l].content]

\* lines 175-183: next is what create_next_step did
crossref_next(D, pre, prompt_dict, results, next) ==
    IF ~next.ok
    THEN Exited(1, "ValueError", D, pre.session_id, 0, pre.data, prompt_dict, results)
    ELSE Exited(0, "",
                save_step_data(next.D, next.ret,
                               ("query" :> << "Crossref" >>)
                               @@ crossref_contents(results),
                               pre.session_id).D,
                pre.session_id, next.ret, pre.data, prompt_dict, results)

\* cmd_crossref after call_parallel returned results (lines 174-183)
cmd_crossref_post(D, pre, prompt_dict, results, now) ==
    crossref_next(D, pre, prompt_dict, results, create_next_step(D, pre.session_id, now))

\* lines 207-208: cleared is what clear_session did
clear_done(D, session_id, cleared) ==
    IF ~cleared.ok THEN Exited(1, "ValueError", D, session_id, 0, NoData, << >>, << >>)
    ELSE Exited(0, "", cleared.D, session_id, 0, NoData, << >>, << >>)

\* lines 203-207: sid is the local session_id
clear_session_of(D, sid) ==
    IF sid = << >> THEN Refused("No session", D)
    ELSE clear_done(D, sid[1], clear_session(D, sid[1]))

cmd_clear(D, args) == clear_session_of(D, session_or_current(D, args.session))

NoArgs == [model |-> << >>, session |-> NoArg, confidence |-> FALSE]

\* the command process: its command line and stdin, what it has done, and
\* whether it waits in call_parallel (pc = "wait") or has exited
ProcOf(mode, args, stdin, r) ==
    [mode |-> mode, args |-> args, stdin |-> stdin,
     pc |-> IF r.dispatch THEN "wait" ELSE "exited",
     code |-> r.code, error |-> r.error, session_id |-> r.session_id,
     step |-> r.step, data |-> r.data, prompts |-> r.prompts, results |-> r.results]

ProcIdle ==
    [mode |-> "none", args |-> NoArgs, stdin |-> Tty, pc |-> "idle", code |-> 0,
     error |-> "", session_id |-> NoSession, step |-> 0, data |-> NoData,
     prompts |-> << >>, results |-> << >>]

\* ------------------------------------------- the library, called directly
SessionIds == {session_id_of(t, p) : t \in 0..MaxClock, p \in Pids}

\* the session_id arguments a call is made with: None (the current session) or
\* an id this process can have created
AnySession == {NoSession} \cup {session_id_of(t, pid) : t \in 0..MaxClock}

NoRet == [op |-> "none", ok |-> TRUE, sid |-> NoSession, val |-> 0]

Init ==
    /\ clock = 0
    /\ pid \in Pids
    /\ sessions = << >>
    /\ current = << >>
    /\ ret = NoRet
    /\ calls = 0
    /\ pool = PoolIdle
    /\ proc = ProcIdle

Tick ==
    /\ clock < MaxClock
    /\ clock' = clock + 1
    /\ UNCHANGED << pid, sessions, current, ret, calls, pool, proc >>

NewSession ==
    LET r == new_session(FS, clock, pid)
    IN /\ sessions' = r.D.sessions
       /\ current' = r.D.current
       /\ ret' = [op |-> "new_session", ok |-> TRUE, sid |-> r.ret, val |-> 0]
       /\ UNCHANGED << clock, pid, pool, proc >>

\* create_next_step(session_id) while the session's current step is below cap
CreateNextStep(session_id, cap) ==
    LET p == get_session_path(FS, session_id)
        r == create_next_step(FS, session_id, clock)
    IN /\ p.ok => get_current_step(FS, session_id) < cap
       /\ sessions' = r.D.sessions
       /\ current' = r.D.current
       /\ ret' = [op |-> "create_next_step", ok |-> r.ok, sid |-> p.id, val |-> r.ret]
       /\ UNCHANGED << clock, pid, pool, proc >>

SaveStepData(step, data, session_id) ==
    LET p == get_session_path(FS, session_id)
        r == save_step_data(FS, step, data, session_id)
    IN /\ sessions' = r.D.sessions
       /\ current' = r.D.current
       /\ ret' = [op |-> "save_step_data", ok |-> r.ok, sid |-> p.id, val |-> step]
       /\ UNCHANGED << clock, pid, pool, proc >>

ClearSession(session_id) ==
    LET p == get_session_path(FS, session_id)
        r == clear_session(FS, session_id)
    IN /\ sessions' = r.D.sessions
       /\ current' = r.D.current
       /\ ret' = [op |-> "clear_session", ok |-> r.ok, sid |-> p.id, val |-> 0]
       /\ UNCHANGED << clock, pid, pool, proc >>

\* ---- SpecSteps: new_session and create_next_step only, to ten and more steps
NextSteps ==
    \/ Tick
    \/ NewSession /\ UNCHANGED calls
    \/ \E s \in AnySession :
          CreateNextStep(s, MaxLongStep) /\ UNCHANGED calls

SpecSteps == Init /\ [][NextSteps]_vars

\* ---- SpecStore: MaxCalls calls of the whole store API
\* the data dicts passed to save_step_data
StepDatas ==
    { ("query" :> << "a" >>),
      ("query" :> << "\r" >>) @@ ("draft" :> << >>),
      ("draft" :> << "b" >>) }

Counted == calls < MaxCalls /\ calls' = calls + 1

NextStore ==
    \/ Tick
    \/ NewSession /\ Counted
    \/ \E s \in AnySession : CreateNextStep(s, MaxStep) /\ Counted
    \/ \E s \in AnySession, step \in 1..MaxStep, data \in StepDatas :
          SaveStepData(step, data, s) /\ Counted
    \/ \E s \in AnySession : ClearSession(s) /\ Counted

SpecStore == Init /\ [][NextStore]_vars

\* ---- SpecPool: one call of call_parallel
\* the arguments call_parallel is called with
PromptArgs ==
    { [str |-> << "q" >>, keys |-> << >>],
      [str |-> << "q" >>, keys |-> << "grok" >>],
      [str |-> << "q" >>, keys |-> << "grok", "gpt", "grok" >>],
      [dict |-> ("gpt" :> << "a" >>) @@ ("gemini" :> << "b" >>), order |-> << "gpt", "gemini" >>],
      [dict |-> ("GPT" :> << "a" >>) @@ ("other" :> << "b" >>) @@ ("grok" :> << "c" >>),
       order |-> << "GPT", "other", "grok" >>] }

PoolKeys == AllKeys \cup {"GPT", "other"}

Others == UNCHANGED << clock, pid, sessions, current, ret, calls, proc >>

NextPool ==
    \/ \E prompts \in PromptArgs, add_confidence \in BOOLEAN :
          CallParallel(prompts, add_confidence) /\ Others
    \/ Submit /\ Others
    \/ Start /\ Others
    \/ \E key \in PoolKeys, out \in Outcomes : Finish(key, out) /\ Others
    \/ \E key \in PoolKeys : Collect(key) /\ Others
    \/ Return /\ Others

SpecPool == Init /\ [][NextPool]_vars

\* ---- SpecCli: MaxRuns command lines, one after the other; call_parallel is
\* taken in one step, to the results it returns for the calls' outcomes
\* the process exits, or waits in call_parallel: the store is as it left it
Exit(mode, args, stdin, exited) ==
    \E r \in {exited} :
       /\ sessions' = r.D.sessions
       /\ current' = r.D.current
       /\ proc' = ProcOf(mode, args, stdin, r)
       /\ UNCHANGED << clock, pid, ret >>

CmdSingle(args, stdin, out) ==
    /\ proc.pc # "wait"
    /\ Exit("single", args, stdin, cmd_single(FS, args, stdin, clock, pid, out))
    /\ UNCHANGED pool

CmdProbe(args, stdin, out) ==
    /\ proc.pc # "wait"
    /\ Exit("probe", args, stdin, cmd_probe(FS, args, stdin, clock, out))
    /\ UNCHANGED pool

CmdClear(args) ==
    /\ proc.pc # "wait"
    /\ Exit("clear", args, Tty, cmd_clear(FS, args))
    /\ UNCHANGED pool

\* the prompts and the results of the call_parallel that pre calls
Dispatched(pre, outs) ==
    [prompt_dict |-> prompt_dict_of(pre.prompts, pre.add_confidence).dict,
     results |-> call_parallel(pre.prompts, pre.add_confidence, outs)]

CmdCouncil(args, stdin, outs) ==
    /\ proc.pc # "wait"
    /\ \E pre \in {cmd_council_pre(FS, args, stdin, clock, pid)} :
          IF pre.dispatch
          THEN \E d \in {Dispatched(pre, outs)} :
                  Exit("council", args, stdin,
                       cmd_council_post(pre.D, pre, d.prompt_dict, d.results))
          ELSE Exit("council", args, stdin, pre)
    /\ UNCHANGED pool

CmdCrossref(args, stdin, outs) ==
    /\ proc.pc # "wait"
    /\ \E pre \in {cmd_crossref_pre(FS, args, stdin)} :
          IF pre.dispatch
          THEN \E d \in {Dispatched(pre, outs)} :
                  Exit("crossref", args, stdin,
                       cmd_crossref_post(pre.D, pre, d.prompt_dict, d.results, clock))
          ELSE Exit("crossref", args, stdin, pre)
    /\ UNCHANGED pool

\* the command lines of the runs
MaxRuns == 2

Ran == calls < MaxRuns /\ calls' = calls + 1

SessionArgs == {NoArg, NewArg, IdArg(session_id_of(0, pid))}

SessionOnly == {[model |-> << >>, session |-> a, confidence |-> FALSE] : a \in SessionArgs}

CouncilArgs ==
    SessionOnly
    \cup {[model |-> << >>, session |-> NoArg, confidence |-> TRUE]}

ModelArgs ==
    { NoArgs,
      [model |-> << "grok" >>, session |-> NoArg, confidence |-> FALSE],
      [model |-> << "grok" >>, session |-> IdArg(session_id_of(0, pid)), confidence |-> FALSE] }

Q1 == << QUERY, "\n", "q1", "\n" >>
Q2D == << QUERY, "\n", "q2", "\n", DRAFT, "\n", "d", "\n" >>
Q3P == << QUERY, "q3", PROBE, " ", "@", "GPT", "\n" >>
QBlank == << QUERY, " ", "\n" >>
D2 == << DRAFT, "\n", "d2" >>

\* what the backends answer: each model its own text, or only a think block
Said(key) == [kind |-> "content", content |-> << "reply of ", key >>]
ThinkOnly == [kind |-> "content", content |-> ThinkBlock]
Failed == [kind |-> "error"]
Raised == [kind |-> "raise"]

\* the outcomes of one dispatch, per model
OutcomeVectors ==
    { [k \in AllKeys |-> Said(k)],
      ("gpt" :> Failed) @@ ("gemini" :> Said("gemini")) @@ ("grok" :> Said("grok")),
      ("gpt" :> Said("gpt")) @@ ("gemini" :> ThinkOnly) @@ ("grok" :> Raised),
      [k \in AllKeys |-> Failed] }

SingleOutcomes == {Said("grok"), ThinkOnly, Failed, Raised}

NextCli ==
    \/ Tick
    \/ \E args \in ModelArgs, stdin \in {Piped(Q1), Piped(QBlank)}, out \in SingleOutcomes :
          Ran /\ CmdSingle(args, stdin, out)
    \/ \E args \in CouncilArgs, stdin \in {Tty, Piped(Q1), Piped(Q2D), Piped(D2)},
          outs \in OutcomeVectors :
          Ran /\ CmdCouncil(args, stdin, outs)
    \/ \E args \in ModelArgs, stdin \in {Piped(Q1), Piped(Q3P), Piped(QBlank)},
          out \in SingleOutcomes :
          Ran /\ CmdProbe(args, stdin, out)
    \/ \E args \in SessionOnly, stdin \in {Tty, Piped(D2)}, outs \in OutcomeVectors :
          Ran /\ CmdCrossref(args, stdin, outs)
    \/ \E args \in SessionOnly : Ran /\ CmdClear(args)

\* every command line runs as the same process id, as in a container
InitCli == Init /\ pid = 1

SpecCli == InitCli /\ [][NextCli]_vars

\* ---- SpecCrossref: MaxLongRuns command lines of council and crossref
MaxLongRuns == 4

RanLong == calls < MaxLongRuns /\ calls' = calls + 1

CrossrefVectors ==
    { [k \in AllKeys |-> Said(k)],
      ("gpt" :> Said("gpt")) @@ ("gemini" :> ThinkOnly) @@ ("grok" :> Failed) }

NextCrossref ==
    \/ Tick
    \/ \E args \in {NoArgs, [NoArgs EXCEPT !.session = NewArg]},
          stdin \in {Piped(Q1), Piped(Q2D)}, outs \in CrossrefVectors :
          RanLong /\ CmdCouncil(args, stdin, outs)
    \/ \E stdin \in {Tty, Piped(D2)}, outs \in CrossrefVectors :
          RanLong /\ CmdCrossref(NoArgs, stdin, outs)

SpecCrossref == InitCli /\ [][NextCrossref]_vars

\* ------------------------------------------------------------- claims
StepsContiguous ==
    \A s \in DOMAIN sessions :
        DOMAIN sessions[s].steps = {str(i) : i \in 1..MetaCurrentStep(sessions[s])}

\* C1 (as stated): every create_next_step on an existing session returns the
\* current step + 1, persists it as the current step and returns a number whose
\* container did not exist yet (never a repeated number); in every state the
\* step containers of a session are exactly 1..current_step.
C1_StepsGapFree ==
    /\ []StepsContiguous
    /\ [][\A s \in AnySession :
            (CreateNextStep(s, MaxLongStep) /\ ret'.ok) =>
                /\ ret'.val = MetaCurrentStep(sessions[ret'.sid]) + 1
                /\ MetaCurrentStep(sessions'[ret'.sid]) = ret'.val
                /\ str(ret'.val) \notin DOMAIN sessions[ret'.sid].steps
                /\ DOMAIN sessions'[ret'.sid].steps = {str(i) : i \in 1..ret'.val}]_vars

\* C5 (as stated): get_session_context returns every step of the session exactly
\* once, in ascending numeric order of step number, each with the artifact
\* mapping load_step_data gives for it, also for sessions of ten or more steps.
C5_ContextAscending ==
    \A s \in DOMAIN sessions :
        LET ctx == get_session_context(FS, s)
            names == DOMAIN sessions[s].steps
        IN /\ Len(ctx) = Cardinality(names)
           /\ {ctx[i].step : i \in 1..Len(ctx)} = {int(n) : n \in names}
           /\ \A i \in 1..(Len(ctx) - 1) : ctx[i].step < ctx[i + 1].step
           /\ \A i \in 1..Len(ctx) : ctx[i].data = load_step_data(FS, ctx[i].step, s)

\* C6 (as stated): the id new_session returns is the id of no session that
\* already exists, and every existing session (metadata, current step, steps,
\* artifacts) is the same after the call as before it.
C6_FreshId ==
    [][NewSession =>
          /\ ret'.sid \notin DOMAIN sessions
          /\ \A s \in DOMAIN sessions : sessions'[s] = sessions[s]]_vars

AllNonEmpty(data) == \A k \in DOMAIN data : data[k] # << >>

NoCarriageReturn(text) == \A i \in 1..Len(text) : text[i] # "\r"

FSnext == [sessions |-> sessions', current |-> current']

C2_OneEntryPerKey ==
    pool.pc = "returned" =>
        /\ DOMAIN pool.results = Range(pool.order)
        /\ DOMAIN pool.results = DOMAIN pool.prompt_dict
        /\ Cardinality(DOMAIN pool.results) = Len(pool.order)
        /\ \A k \in DOMAIN pool.results : pool.results[k].key = k

\* a dispatch over three keys has returned: one call answered, one failed and
\* one raised
C2_Witness ==
    /\ pool.pc = "returned"
    /\ Len(pool.order) = 3
    /\ {pool.outcome[k].kind : k \in DOMAIN pool.outcome} = {"content", "error", "raise"}

\* C3: the dispatch is never aborted; the result recorded for a key is the one
\* its own call's outcome gives (success with the stripped content exactly when
\* its own call answered, else a failure), tagged with the key and its name;
\* and when call_parallel returns every requested call has run to its end.
C3_FailureIsolated ==
    /\ pool.pc # "raised"
    /\ \A k \in DOMAIN pool.results :
          /\ k \in DOMAIN pool.outcome
          /\ LET out == pool.outcome[k]
                 r == pool.results[k]
             IN /\ r.key = k /\ r.name = name(k)
                /\ r.success <=> out.kind = "content"
                /\ r.success => r.content = strip_think_tags(out.content)
                /\ ~r.success => "content" \notin DOMAIN r
    /\ pool.pc = "returned" =>
          /\ DOMAIN pool.outcome = DOMAIN pool.prompt_dict
          /\ \A k \in DOMAIN pool.futures : pool.futures[k].state = "finished"

\* a dispatch has returned with the success of one key next to the failure of
\* a call that finished before it
C3_Witness ==
    /\ pool.pc = "returned"
    /\ Len(pool.order) = 3
    /\ \E k1, k2 \in DOMAIN pool.results :
          /\ pool.outcome[k1].kind \in {"error", "raise"}
          /\ pool.results[k2].success
          /\ pool.order[1] = k1 /\ pool.order[3] = k2

\* ---- SpecDispatch: MaxRuns command lines of council and crossref, with the
\* steps of call_parallel and of its worker threads
\* the command up to its call of call_parallel, or to its exit before that
Begin(mode, args, stdin, begun) ==
    \E pre \in {begun} :
       /\ sessions' = pre.D.sessions
       /\ current' = pre.D.current
       /\ proc' = ProcOf(mode, args, stdin, pre)
       /\ IF pre.dispatch
          THEN CallParallel(pre.prompts, pre.add_confidence)
          ELSE pool' = pool
       /\ UNCHANGED << clock, pid, ret >>

CouncilStart(args, stdin) ==
    /\ proc.pc # "wait"
    /\ Begin("council", args, stdin, cmd_council_pre(FS, args, stdin, clock, pid))

CrossrefStart(args, stdin) ==
    /\ proc.pc # "wait"
    /\ Begin("crossref", args, stdin, cmd_crossref_pre(FS, args, stdin))

\* cmd_council saving what was collected so far, before call_parallel returns
CouncilFinish_early ==
    /\ proc.pc = "wait" /\ proc.mode = "council"
    /\ pool.pc = "collecting" /\ pool.yielded # {}
    /\ Exit("council", proc.args, proc.stdin,
            cmd_council_post(FS, proc, pool.prompt_dict, pool.results))
    /\ pool' = PoolIdle
    /\ UNCHANGED calls

\* cmd_council from the return of call_parallel to the exit (lines 61-76)
CouncilFinish ==
    /\ proc.pc = "wait" /\ proc.mode = "council"
    /\ pool.pc = "returned"
    /\ Exit("council", proc.args, proc.stdin,
            cmd_council_post(FS, proc, pool.prompt_dict, pool.results))
    /\ pool' = PoolIdle
    /\ UNCHANGED calls

\* cmd_crossref from the return of call_parallel to the exit (lines 172-183)
CrossrefFinish ==
    /\ proc.pc = "wait" /\ proc.mode = "crossref"
    /\ pool.pc = "returned"
    /\ Exit("crossref", proc.args, proc.stdin,
            cmd_crossref_post(FS, proc, pool.prompt_dict, pool.results, clock))
    /\ pool' = PoolIdle
    /\ UNCHANGED calls

NextDispatch ==
    \/ Tick
    \/ \E args \in {NoArgs, [NoArgs EXCEPT !.session = NewArg]},
          stdin \in {Tty, Piped(Q2D)} :
          pool.pc = "idle" /\ Ran /\ CouncilStart(args, stdin)
    \/ \E stdin \in {Tty, Piped(D2)} :
          pool.pc = "idle" /\ Ran /\ CrossrefStart(NoArgs, stdin)
    \/ Submit /\ Others
    \/ Start /\ Others
    \/ \E key \in AllKeys : \E out \in {Said(key), Failed} : Finish(key, out) /\ Others
    \/ \E key \in AllKeys : Collect(key) /\ Others
    \/ Return /\ Others
    \/ CouncilFinish
    \/ CrossrefFinish

SpecDispatch == InitCli /\ [][NextDispatch]_vars

\* ------------------------------------------------------------ C7
NoQueryGiven(stdin) == stdin.tty \/ ~Truthy(parse_stdin(stdin.text).query)

NoDraftGiven(stdin) == stdin.tty \/ ~Truthy(parse_stdin(stdin.text).draft)

\* the current step of the session the command names has a draft
StepHasDraft(D, args) ==
    LET sid == session_or_current(D, args.session)
    IN /\ sid # << >>
       /\ get_session_path(D, sid[1]).ok
       /\ "draft" \in DOMAIN load_step_data(D, get_current_step(D, sid[1]), sid[1])

\* the input errors of C7, on the command line, stdin and the store before the run
InputError(D, mode, args, stdin) ==
    \/ mode \in {"council", "single", "probe"} /\ NoQueryGiven(stdin)
    \/ /\ mode = "probe"
       /\ \/ args.model = << >>
             /\ (stdin.tty \/ parse_stdin(stdin.text).probe_model = << >>)
          \/ session_or_current(D, args.session) = << >>
    \/ mode = "crossref" /\ ~StepHasDraft(D, args) /\ NoDraftGiven(stdin)

\* C7: a command run on an input error (council, single or probe without a
\* query, probe without a target model or without a session, crossref with a
\* draft neither in the current step nor on stdin) reports an error, exits
\* non-zero, has sent no prompt to any backend, and leaves every session, step,
\* metadata, artifact and the current-session marker as they were.
C7_InputErrorsRejected ==
    [][(calls' # calls /\ InputError(FS, proc'.mode, proc'.args, proc'.stdin))
       => /\ proc'.pc = "exited"
          /\ proc'.code # 0
          /\ proc'.error # ""
          /\ proc'.prompts = << >> /\ proc'.results = << >>
          /\ pool' = pool
          /\ sessions' = sessions
          /\ current' = current]_vars

\* crossref was refused for a step that has model responses but no draft
C7_Witness ==
    /\ proc.pc = "exited" /\ proc.mode = "crossref" /\ proc.code # 0
    /\ proc.stdin.tty
    /\ proc.session_id \in DOMAIN sessions
    /\ LET step_data == load_step_data(FS, get_current_step(FS, proc.session_id),
                                       proc.session_id)
       IN "draft" \notin DOMAIN step_data /\ "gemini" \in DOMAIN step_data

\* ------------------------------------------------------------ C9
\* s has t as a contiguous part
HasPart(s, t) == \E i \in 0..(Len(s) - Len(t)) : SubSeq(s, i + 1, i + Len(t)) = t

RECURSIVE SplitLines(_)
SplitLines(s) ==
    IF ~Contains(s, "\n") THEN << s >>
    ELSE << Before(s, "\n") >> \o SplitLines(After(s, "\n"))

\* the entries listed under "Other responses" in a crossref prompt
OtherEntries(prompt) ==
    Range(SplitLines(SubSeq(prompt, IndexOf(prompt, "Other responses:") + 2,
                            IndexOf(prompt, "---") - 3)))

\* what stands under "Your previous answer" in a crossref prompt that has it
PreviousAnswer(prompt) ==
    SubSeq(prompt, IndexOf(prompt, "Your previous answer:") + 2,
           IndexOf(prompt, "Other responses:") - 3)

\* the prompt without what stands under "Your previous answer"
OutsidePreviousAnswer(prompt) ==
    SubSeq(prompt, 1, IndexOf(prompt, "Your previous answer:"))
    \o SubSeq(prompt, IndexOf(prompt, "Other responses:") - 2, Len(prompt))

Entry(label, text) == << label, ": " >> \o text

\* the data of the step a crossref run reads, with the draft of its stdin
\* when the step has none
StepRead(D, session_id, stdin) ==
    LET loaded == load_step_data(D, get_current_step(D, session_id), session_id)
    IN IF "draft" \notin DOMAIN loaded /\ ~NoDraftGiven(stdin)
       THEN Put(loaded, "draft", parse_stdin(stdin.text).draft[1])
       ELSE loaded

CrossrefRun == calls' # calls /\ proc'.mode = "crossref" /\ proc'.prompts # << >>

\* C9: in a crossref run, the prompt built for model k lists under "Other
\* responses" exactly the draft and the responses that the models other than
\* k have in the step read, never k's own; k's response stands under "Your
\* previous answer" when k has one in that step and nowhere else in the
\* prompt, and the prompt has no such section when k has none.
C9_OwnAnswerApart ==
    [][CrossrefRun =>
        LET step_data == StepRead(FS, proc'.session_id, proc'.stdin)
        IN \A k \in AllKeys :
              LET prompt == proc'.prompts[k]
              IN /\ OtherEntries(prompt)
                      = {Entry("Claude", step_data["draft"])}
                        \cup {Entry(name(j), step_data[j]) :
                                 j \in (AllKeys \ {k}) \cap DOMAIN step_data}
                 /\ k \in DOMAIN step_data
                      => /\ Entry(name(k), step_data[k]) \notin OtherEntries(prompt)
                         /\ Contains(prompt, "Your previous answer:")
                         /\ PreviousAnswer(prompt) = step_data[k]
                         /\ ~HasPart(OutsidePreviousAnswer(prompt), step_data[k])
                 /\ k \notin DOMAIN step_data
                      => ~Contains(prompt, "Your previous answer:")]_vars

\* a crossref run over a step where gpt has a response and gemini has none:
\* gemini is shown the draft and gpt's response, gpt the draft only
C9_Witness ==
    /\ proc.mode = "crossref" /\ proc.prompts # << >>
    /\ Contains(proc.prompts["gpt"], "Your previous answer:")
    /\ ~Contains(proc.prompts["gemini"], "Your previous answer:")
    /\ Cardinality(OtherEntries(proc.prompts["gemini"])) = 2
    /\ Cardinality(OtherEntries(proc.prompts["gpt"])) = 1

\* ------------------------------------------------------------ C8
\* the artifact key of step in the session, << >> when there is none
Artifact(D, session_id, step, key) ==
    LET step_data == load_step_data(D, step, session_id)
    IN IF key \in DOMAIN step_data THEN << step_data[key] >> ELSE << >>

\* what a crossref run leaves of the step it read and in the step it wrote:
\* the step read keeps its query and its model responses, the step written
\* is the one after it and becomes the current step, and it holds under
\* k_crossref the critique of each successful model k that gave one
CrossrefFrame(session_id, read) ==
    /\ proc'.step = read + 1
    /\ get_current_step(FSnext, session_id) = read + 1
    /\ \A key \in {"query"} \cup AllKeys :
          Artifact(FSnext, session_id, read, key) = Artifact(FS, session_id, read, key)
    /\ \A k \in AllKeys :
          (proc'.results[k].success /\ proc'.results[k].content # << >>)
          => Artifact(FSnext, session_id, read + 1, crossref_name(k))
               = << proc'.results[k].content >>

\* C8: a crossref run writes its results into a newly created step, the
\* current step + 1: the step did not exist before the run; it holds each
\* successful model k's critique under k_crossref (a critique is a non-empty
\* text); the query and the model responses of the step read are unchanged;
\* and the session's current step has advanced by exactly one.
C8_CrossrefNewStep ==
    [][CrossrefRun =>
        LET session_id == proc'.session_id
            read == get_current_step(FS, session_id)
        IN /\ str(read + 1) \notin DOMAIN sessions[session_id].steps
           /\ CrossrefFrame(session_id, read)]_vars

\* ------------------------------------------------------------ C4
\* C4, as claimed: whatever a command that dispatches parallel calls changes
\* in the store (a session, a step, the metadata, an artifact, the marker),
\* it changes after call_parallel has returned.
C4_WritesAfterReturn ==
    [][FSnext # FS => pool.pc = "returned"]_vars

\* C4, amended: the store changes only in a step of the command's main flow
\* taken while no parallel call is pending, that is before call_parallel is
\* called (the session and the step are resolved, crossref saves the draft of
\* stdin) or after it has returned (the artifacts are written, crossref
\* creates the next step); no step of call_parallel or of a worker thread
\* changes the store.
C4_NoWriteWhilePending ==
    [][FSnext # FS => /\ pool.pc \in {"idle", "returned"}
                      /\ proc' # proc
                      /\ pool'.pc \in {"idle", "submitting"}]_vars

\* calls are in flight for a command that created its session before them
C4_Witness ==
    /\ proc.pc = "wait"
    /\ pool.pc = "collecting" /\ pool.running # {} /\ pool.yielded # {}
    /\ proc.session_id \in DOMAIN sessions
    /\ sessions[proc.session_id].steps[str(proc.step)] = EmptyDir

\* the artifact files of a step directory that may not exist yet
StepFiles(dir, step) == IF str(step) \in DOMAIN dir.steps THEN dir.steps[str(step)] ELSE EmptyDir

\* C11: a successful save_step_data(step, data) changes, in the step, exactly
\* the artifacts that data gives a non-empty value (they hold that value
\* afterwards); the step's other artifacts, mentioned with an empty value or
\* not at all, keep their content, and the session's metadata and current
\* step, its other steps, the other sessions and the current-session marker
\* are unchanged.  (The step's container exists afterwards.)
C11_SaveFrame ==
    [][(ret'.op = "save_step_data" /\ ret'.ok) =>
        \A s \in AnySession, step \in {ret'.val}, data \in StepDatas :
          SaveStepData(step, data, s) =>
              LET id == ret'.sid
                  old == StepFiles(sessions[id], step)
                  new == StepFiles(sessions'[id], step)
                  given == {FileName(k) : k \in {j \in DOMAIN data : data[j] # << >>}}
              IN /\ current' = current
                 /\ DOMAIN sessions' = DOMAIN sessions
                 /\ \A t \in DOMAIN sessions \ {id} : sessions'[t] = sessions[t]
                 /\ sessions'[id].metadata = sessions[id].metadata
                 /\ MetaCurrentStep(sessions'[id]) = MetaCurrentStep(sessions[id])
                 /\ DOMAIN sessions'[id].steps = DOMAIN sessions[id].steps \cup {str(step)}
                 /\ \A n \in DOMAIN sessions[id].steps \ {str(step)} :
                        sessions'[id].steps[n] = sessions[id].steps[n]
                 /\ DOMAIN new = DOMAIN old \cup given
                 /\ \A f \in DOMAIN old \ given : new[f] = old[f]
                 /\ \A f \in given : new[f] = data[f[1]]]_vars

\* a save with an empty draft value into a step that holds a draft: the draft
\* is still there next to the query just written
C11_Witness ==
    /\ ret.op = "save_step_data" /\ ret.ok
    /\ ret.sid \in DOMAIN sessions
    /\ LET files == StepFiles(sessions[ret.sid], ret.val)
       IN /\ DOMAIN files = {FileName("query"), FileName("draft")}
          /\ files[FileName("query")] = << "\r" >>
          /\ files[FileName("draft")] = << "b" >>

\* C12: no step of the store removes an artifact or a step of a session,
\* except a successful clear_session of that session: every step and every
\* artifact name a session holds is still there in the next state (the content
\* may differ), so it is there in every later state until the session is cleared.
C12_NoDeletion ==
    [][\A s \in DOMAIN sessions :
          \/ \E a \in AnySession : ClearSession(a) /\ ret'.ok /\ ret'.sid = s
          \/ /\ s \in DOMAIN sessions'
             /\ \A n \in DOMAIN sessions[s].steps :
                   /\ n \in DOMAIN sessions'[s].steps
                   /\ DOMAIN sessions[s].steps[n] \subseteq DOMAIN sessions'[s].steps[n]]_vars

\* new_session has just returned the id of a session that existed, and the
\* artifact saved in its step 1 before is still there
C12_Witness ==
    /\ ret.op = "new_session"
    /\ FileName("query") \in DOMAIN StepFiles(sessions[ret.sid], 1)

\* C13: a successful clear_session removes the whole container of the session
\* it is applied to and no other session; applied to the current session
\* (by its id or by default) it leaves get_current_session returning none;
\* applied to a session that is not the current one it leaves the
\* current-session marker as it was.
C13_ClearSession ==
    [][\A a \in AnySession :
          (ClearSession(a) /\ ret'.ok) =>
              /\ ret'.sid \in DOMAIN sessions
              /\ ret'.sid \notin DOMAIN sessions'
              /\ \A t \in DOMAIN sessions \ {ret'.sid} :
                    t \in DOMAIN sessions' /\ sessions'[t] = sessions[t]
              /\ IF get_current_session(FS) = << ret'.sid >>
                 THEN get_current_session(FSnext) = << >>
                 ELSE get_current_session(FSnext) = get_current_session(FS)]_vars

\* a session that is not the current one was cleared: the current session
\* and its marker are still there
C13_Witness ==
    /\ ret.op = "clear_session" /\ ret.ok
    /\ ret.sid \notin DOMAIN sessions
    /\ current # << >> /\ current[1] # ret.sid
    /\ current[1] \in DOMAIN sessions

\* C14: at every moment of call_parallel the number of backend calls in
\* flight is at most min(MAX_WORKERS, number of requested keys).
C14_InFlightBounded ==
    /\ Cardinality(pool.running) <= MAX_WORKERS
    /\ Cardinality(pool.running) <= Cardinality(DOMAIN pool.prompt_dict)
    /\ pool.running \subseteq DOMAIN pool.prompt_dict

\* MAX_WORKERS calls are in flight while a third requested call waits in the
\* queue for a free worker
C14_Witness ==
    /\ Cardinality(pool.running) = MAX_WORKERS
    /\ Len(pool.order) = 3
    /\ Len(pool.queue) = 1

\* ---- SpecPoolFair: SpecPool with the scheduling the code relies on: the main
\* thread goes on with its loops, a free worker takes queued work, and every
\* backend call that was started ends
SpecPoolFair ==
    /\ SpecPool
    /\ WF_vars(Submit /\ Others)
    /\ WF_vars(Start /\ Others)
    /\ WF_vars(\E key \in PoolKeys, out \in Outcomes : Finish(key, out) /\ Others)
    /\ WF_vars(\E key \in PoolKeys : Collect(key) /\ Others)
    /\ WF_vars(Return /\ Others)

\* every requested call was started, ran to its own end and was collected;
\* none is queued, in flight or was cancelled
AllCompleted ==
    /\ pool.queue = << >> /\ pool.running = {}
    /\ pool.submitted = Len(pool.order)
    /\ DOMAIN pool.futures = Range(pool.order)
    /\ \A k \in DOMAIN pool.futures : pool.futures[k].state = "finished"
    /\ DOMAIN pool.outcome = Range(pool.order)
    /\ pool.yielded = Range(pool.order)

\* C15: when call_parallel returns, no call is in flight or queued and every
\* submitted call has run to its own completion; a call that was started is
\* never taken back (it stays in flight until it ends by itself); and, every
\* started backend call ending eventually, a call_parallel that was entered
\* eventually returns.
C15_ReturnsWhenAllDone ==
    /\ [](pool.pc = "returned" => AllCompleted)
    /\ [][\A k \in pool.running : k \in pool.running' \/ k \in DOMAIN pool.outcome']_vars
    /\ (pool.pc = "submitting") ~> (pool.pc = "returned")

\* call_parallel has returned three results, the call submitted first having
\* failed
C15_Witness ==
    /\ pool.pc = "returned"
    /\ Len(pool.order) = 3
    /\ AllCompleted
    /\ \E out \in Outcomes : pool.outcome[pool.order[1]] = out /\ out.kind = "error"

\* a result of call: tagged with the key and its display name, and either a
\* success with content and no error or a failure with an error and no content
TaggedResult(r, key) ==
    /\ {"key", "name", "success"} \subseteq DOMAIN r
    /\ r.key = key /\ r.name = name(key)
    /\ r.success \in BOOLEAN
    /\ r.success => "content" \in DOMAIN r /\ "error" \notin DOMAIN r
    /\ ~r.success => "error" \in DOMAIN r /\ "content" \notin DOMAIN r

\* C16: every call(key, prompt) a command makes returns a result, whatever the
\* backend does (answers, fails, or an exception is raised): the command holds
\* one result for the prompt it sent, tagged with the key and its display
\* name, a success carrying content or a failure carrying an error message,
\* never both.
C16_CallTotal ==
    proc.mode \in {"single", "probe"} =>
        /\ DOMAIN proc.results = DOMAIN proc.prompts
        /\ \A k \in DOMAIN proc.results : TaggedResult(proc.results[k], k)

\* a single command whose backend call raised: call returned the failure
\* made from the exception and the command exited with an error
C16_Witness ==
    /\ proc.mode = "single" /\ proc.pc = "exited" /\ proc.code = 1
    /\ DOMAIN proc.results = {"grok"}
    /\ proc.results["grok"] = CaughtFailure("grok")

\* ---- SpecText: the text functions, each applied to texts put together from
\* a few pieces
\* texts of at most MaxPieces pieces
MaxPieces == 5

\* pieces of model answers: tags, halves of a tag, text and whitespace
ThinkPieces ==
    { OpenTag, CloseTag, << "<", "t", "h" >>, << "i", "n", "k", ">" >>,
      << "x" >>, << " ", "\n" >> }

RECURSIVE Concats(_, _)
Concats(pieces, n) ==
    IF n = 0 THEN {<< >>}
    ELSE {s \o p : s \in Concats(pieces, n - 1), p \in pieces \cup {<< >>}}

\* the sections of a stdin text; the PROBE section names gpt on its first
\* line and grok on its second
Sections ==
    { << QUERY, "\n", "q", "\n" >>,
      << DRAFT, "\n", "d", "\n" >>,
      << PROBE, " ", "@", "GPT", "\n", "@", "grok", "\n" >> }

\* the sections present, in every order: each section at most once
StdinTexts ==
    {t \in Concats(Sections, 3) :
        \A m \in {QUERY, DRAFT, PROBE} : Cardinality({i \in 1..Len(t) : t[i] = m}) <= 1}

InitText ==
    /\ clock = 0 /\ pid = 1 /\ sessions = << >> /\ current = << >>
    /\ calls = 0 /\ pool = PoolIdle /\ proc = ProcIdle
    /\ ret \in {[op |-> "input", text |-> t] :
                   t \in Concats(ThinkPieces, MaxPieces) \cup StdinTexts}

\* content = strip_think_tags(content), on a text or on what the last
\* application returned
StripThinkTags ==
    /\ ret.op \in {"input", "strip_think_tags"}
    /\ \E content \in {IF ret.op = "input" THEN ret.text ELSE ret.val} :
          ret' = [op |-> "strip_think_tags", arg |-> content,
                  val |-> strip_think_tags(content)]
    /\ UNCHANGED << clock, pid, sessions, current, calls, pool, proc >>

\* data = parse_stdin(stdin)
ParseStdin ==
    /\ ret.op = "input"
    /\ ret' = [op |-> "parse_stdin", arg |-> ret.text, val |-> parse_stdin(ret.text)]
    /\ UNCHANGED << clock, pid, sessions, current, calls, pool, proc >>

NextText ==
    \/ StripThinkTags
    \/ ParseStdin

SpecText == InitText /\ [][NextText]_vars

\* s holds a think span: an opening tag with a closing tag behind it
HasSpan(s) ==
    \E i \in 1..Len(s) : At(s, i, OpenTag) /\ FirstClose(SubSeq(s, i + Len(OpenTag), Len(s))) > 0

\* C17 (as stated): strip_think_tags applied to its own result returns that
\* result (idempotent); its result holds no <think>...</think> span; and a
\* text with no such span is returned unchanged.
C17_StripIdempotent ==
    [][ret'.op = "strip_think_tags" =>
          /\ ret.op = "strip_think_tags" => ret'.val = ret.val
          /\ ~HasSpan(ret'.val)
          /\ ~HasSpan(ret'.arg) => ret'.val = ret'.arg]_vars

\* the text of the section of marker m in t: what stands between m and the
\* next marker, or the end of t
SectionOf(t, m) ==
    SubSeq(After(t, m), 1,
           IF \E i \in 1..Len(After(t, m)) : After(t, m)[i] \in {QUERY, DRAFT, PROBE}
           THEN (CHOOSE i \in 1..Len(After(t, m)) :
                    /\ After(t, m)[i] \in {QUERY, DRAFT, PROBE}
                    /\ \A j \in 1..(i - 1) : After(t, m)[j] \notin {QUERY, DRAFT, PROBE}) - 1
           ELSE Len(After(t, m)))

\* the stripped text of the section of m, none when t has no such section
SectionText(t, m) == IF Contains(t, m) THEN << strip(SectionOf(t, m)) >> ELSE << >>

\* C19 (as stated): whatever the order of the sections present in the input,
\* parse_stdin returns as query the text of the QUERY section, as draft the
\* text of the DRAFT section, and as probe target the known model key named by
\* @key on the first line of the PROBE section; an absent section gives none.
C19_AnyOrder ==
    ret.op = "parse_stdin" =>
        /\ ret.val.query = SectionText(ret.arg, QUERY)
        /\ ret.val.draft = SectionText(ret.arg, DRAFT)
        /\ ret.val.probe_model =
              IF Contains(ret.arg, PROBE)
              THEN _parse_probe_target(SectionOf(ret.arg, PROBE))
              ELSE << >>

\* C20: right after new_session has returned the id s, the container of s
\* exists and holds a step-1 container, the persisted metadata give the
\* creation time and the current step 1, get_current_step(s) is 1, and
\* get_current_session returns s, whatever session was current before.
C20_NewSessionState ==
    [][NewSession =>
          /\ ret'.sid = session_id_of(clock, pid)
          /\ ret'.sid \in DOMAIN sessions'
          /\ str(1) \in DOMAIN sessions'[ret'.sid].steps
          /\ sessions'[ret'.sid].metadata # << >>
          /\ {"created", "current_step"} \subseteq DOMAIN sessions'[ret'.sid].metadata[1]
          /\ sessions'[ret'.sid].metadata[1]["current_step"] = 1
          /\ get_current_step(FSnext, ret'.sid) = 1
          /\ get_current_session(FSnext) = << ret'.sid >>]_vars

\* new_session has returned while an older session exists: the new one is
\* the current session
C20_Witness ==
    /\ ret.op = "new_session"
    /\ Cardinality(DOMAIN sessions) = 2
    /\ current = << ret.sid >>
    /\ \E s \in DOMAIN sessions \ {ret.sid} : MetaCurrentStep(sessions[s]) = 2

\* ---- SpecProbe: MaxProbeRuns command lines of council and probe, the
\* models answering with texts around ProbeLimit characters
MaxProbeRuns == 2

RanProbe == calls < MaxProbeRuns /\ calls' = calls + 1

\* an answer of n characters, the last one different from the others
LongSaid(n) == [kind |-> "content", content |-> [i \in 1..n |-> IF i = n THEN "z" ELSE "a"]]

LongVectors ==
    { ("gpt" :> LongSaid(ProbeLimit)) @@ ("gemini" :> LongSaid(ProbeLimit + 1))
        @@ ("grok" :> Said("grok")),
      ("gpt" :> LongSaid(ProbeLimit + 1)) @@ ("gemini" :> LongSaid(ProbeLimit - 1))
        @@ ("grok" :> Failed) }

NextProbe ==
    \/ Tick
    \/ \E stdin \in {Piped(Q1), Piped(Q2D)}, outs \in LongVectors :
          RanProbe /\ CmdCouncil(NoArgs, stdin, outs)
    \/ \E args \in {NoArgs, [NoArgs EXCEPT !.model = << "grok" >>]},
          stdin \in {Piped(Q1), Piped(Q3P)},
          out \in {LongSaid(ProbeLimit + 1), Failed} :
          RanProbe /\ CmdProbe(args, stdin, out)

SpecProbe == InitCli /\ [][NextProbe]_vars

\* the blocks of the probe context are joined by an empty line
BlockSep == << "\n", "\n" >>

\* block is one of the blocks of prompt, from separator to separator
HasBlock(prompt, block) == HasPart(prompt, BlockSep \o block \o BlockSep)

\* the steps a probe on the session reads, with what load_step_data gives
StoredSteps(D, session_id) ==
    {[step |-> int(n), data |-> load_step_data(D, int(n), session_id)] :
        n \in DOMAIN D.sessions[session_id].steps}

\* C18: in the context a probe sends, the response a step stores for a model
\* is there under the model's name, as exactly its first 800 characters
\* followed by "..." when it has more than 800 characters, and as it is,
\* with no marker, when it has 800 characters or fewer.
C18_ProbeTruncation ==
    [][(calls' # calls /\ proc'.mode = "probe" /\ proc'.prompts # << >>) =>
        \A key \in DOMAIN proc'.prompts :
          \A info \in StoredSteps(FS, proc'.session_id) :
            \A k \in AllKeys \cap DOMAIN info.data :
               IF Len(info.data[k]) > 800
               THEN HasBlock(proc'.prompts[key],
                             << name(k), ": " >> \o SubSeq(info.data[k], 1, 800)
                             \o << ".", ".", "." >>)
               ELSE HasBlock(proc'.prompts[key], << name(k), ": " >> \o info.data[k])]_vars

\* a probe has sent the context of a step that stores a response of 800
\* characters and one of 801
C18_Witness ==
    /\ proc.mode = "probe" /\ proc.prompts # << >>
    /\ proc.session_id \in DOMAIN sessions
    /\ \E info \in StoredSteps(FS, proc.session_id) :
          /\ {"gpt", "gemini"} \subseteq DOMAIN info.data
          /\ Len(info.data["gpt"]) = 800
          /\ Len(info.data["gemini"]) = 801

\* ------------------------------------------------------------ C21
\* the artifact files of a step whose session may not exist yet
FilesOf(D, session_id, step) ==
    IF session_id \in DOMAIN D.sessions
    THEN StepFiles(D.sessions[session_id], step)
    ELSE EmptyDir

\* the step holds the artifact key with this content
Holds(files, key, content) ==
    FileName(key) \in DOMAIN files /\ files[FileName(key)] = content

\* the artifact key is in new as it is in old: absent in both, or the same content
Untouched(old, new, key) ==
    /\ FileName(key) \in DOMAIN new <=> FileName(key) \in DOMAIN old
    /\ FileName(key) \in DOMAIN old => new[FileName(key)] = old[FileName(key)]

\* a council run that got as far as call_parallel
CouncilRun == calls' # calls /\ proc'.mode = "council" /\ proc'.prompts # << >>

\* what a council run leaves in its step, old and new being the step's files
\* before and after it: the query, the draft when one was given, the response
\* of each model of stored, and for every other model what was there before
CouncilStep(old, new, data, results, stored) ==
    /\ Holds(new, "query", data.query[1])
    /\ Truthy(data.draft) => Holds(new, "draft", data.draft[1])
    /\ \A k \in AllKeys :
          IF k \in stored
          THEN Holds(new, k, results[k].content)
          ELSE Untouched(old, new, k)

\* C21 (as stated): a council run completes (exit code 0) whatever subset of
\* the models fails, and its step exists afterwards and holds the query, the
\* draft when one was given, and the response of model k written by this run
\* exactly when k's call succeeded; for a model that failed the run writes
\* nothing (the step has under k what it had before, if anything).
C21_CouncilPersists ==
    [][CouncilRun =>
          /\ proc'.pc = "exited" /\ proc'.code = 0
          /\ proc'.session_id \in DOMAIN sessions'
          /\ str(proc'.step) \in DOMAIN sessions'[proc'.session_id].steps
          /\ DOMAIN proc'.results = AllKeys
          /\ CouncilStep(FilesOf(FS, proc'.session_id, proc'.step),
                         FilesOf(FSnext, proc'.session_id, proc'.step),
                         proc'.data, proc'.results, Successful(proc'.results))]_vars

\* the successful results whose content is not empty
NonEmpty(results) == {k \in Successful(results) : results[k].content # << >>}

\* C21 (amended): a council run completes (exit code 0) whatever subset of the
\* models fails, and its step exists afterwards and holds the query, the
\* draft when one was given, and the response of model k written by this run
\* exactly when k's call succeeded with a content that is not empty once the
\* think blocks are stripped; for a model that failed, or whose content is
\* empty, the run writes nothing (the step has under k what it had before,
\* if anything).
C21_CouncilPersistsNonEmpty ==
    [][CouncilRun =>
          /\ proc'.pc = "exited" /\ proc'.code = 0
          /\ proc'.session_id \in DOMAIN sessions'
          /\ str(proc'.step) \in DOMAIN sessions'[proc'.session_id].steps
          /\ DOMAIN proc'.results = AllKeys
          /\ CouncilStep(FilesOf(FS, proc'.session_id, proc'.step),
                         FilesOf(FSnext, proc'.session_id, proc'.step),
                         proc'.data, proc'.results, NonEmpty(proc'.results))]_vars

\* a council run in a new session where one model answered, one answered with
\* a think block only and one raised: the step holds the query, the draft
\* and the first model's response
C21_Witness ==
    /\ proc.mode = "council" /\ proc.pc = "exited" /\ proc.code = 0
    /\ proc.results # << >>
    /\ Successful(proc.results) = {"gpt", "gemini"}
    /\ NonEmpty(proc.results) = {"gpt"}
    /\ DOMAIN FilesOf(FS, proc.session_id, proc.step)
          = {FileName("query"), FileName("draft"), FileName("gpt")}

\* ------------------------------------------------------------ C22
\* the artifact names of model responses: a model key, or its crossref name
ResponseNames == AllKeys \cup {crossref_name(k) : k \in AllKeys}

\* a command line has run to its exit and written the query of its step
WroteQuery ==
    /\ calls' # calls
    /\ proc'.mode \in {"council", "single", "probe", "crossref"}
    /\ proc'.pc = "exited" /\ proc'.code = 0

\* the model-response artifacts the run has written: one per result it saved
WroteResponses ==
    IF proc'.mode = "crossref"
    THEN {crossref_name(k) : k \in NonEmpty(proc'.results)}
    ELSE NonEmpty(proc'.results)

\* C22 (as stated): a step never holds a model response written by an earlier
\* invocation next to the query of a later one.  Step by step: after a run
\* that wrote the query of its step, every model-response artifact of that
\* step is one this run wrote; and a run that wrote no query has written no
\* model response (those that exist are as they were).
C22_ResponsesOfSameRun ==
    [][calls' # calls =>
          IF WroteQuery
          THEN \A key \in ResponseNames :
                  FileName(key) \in DOMAIN FilesOf(FSnext, proc'.session_id, proc'.step)
                     => key \in WroteResponses
          ELSE \A s \in DOMAIN sessions' :
                  \A n \in DOMAIN sessions'[s].steps :
                     \A key \in ResponseNames :
                        FileName(key) \in DOMAIN sessions'[s].steps[n]
                           => /\ s \in DOMAIN sessions
                              /\ n \in DOMAIN sessions[s].steps
                              /\ Holds(sessions[s].steps[n], key,
                                       sessions'[s].steps[n][FileName(key)])]_vars

\* ---- SpecFollowUp: MaxLongRuns command lines of council in a new session
\* and of probe, every answer being a text
NextFollowUp ==
    \/ Tick
    \/ \E stdin \in {Piped(Q1), Piped(Q2D)} :
          RanLong /\ CmdCouncil([NoArgs EXCEPT !.session = NewArg], stdin,
                                [k \in AllKeys |-> Said(k)])
    \/ \E args \in {NoArgs, [NoArgs EXCEPT !.model = << "grok" >>]},
          stdin \in {Piped(Q1), Piped(Q3P)}, out \in {Said("grok"), Failed} :
          RanLong /\ CmdProbe(args, stdin, out)

SpecFollowUp == InitCli /\ [][NextFollowUp]_vars

\* a probe run that got as far as the backend call
ProbeRun == calls' # calls /\ proc'.mode = "probe" /\ proc'.prompts # << >>

\* C23 (as stated): a probe sends its prompt to exactly one model.  When that
\* call fails, the probe reports the failure and exits non-zero, and the
\* sessions, their steps, metadata and artifacts and the current-session
\* marker are as before.  When it succeeds, the probe exits with 0 and has
\* created exactly one step, which did not exist before; that step is the
\* session's current step and holds the follow-up question and the target
\* model's response.
C23_ProbeAllOrNothing ==
    [][ProbeRun =>
        \E target \in AllKeys :
          /\ DOMAIN proc'.prompts = {target} /\ DOMAIN proc'.results = {target}
          /\ IF ~proc'.results[target].success
             THEN /\ proc'.pc = "exited" /\ proc'.code # 0 /\ proc'.error # ""
                  /\ sessions' = sessions /\ current' = current
             ELSE /\ proc'.pc = "exited" /\ proc'.code = 0
                  /\ str(proc'.step) \notin DOMAIN sessions[proc'.session_id].steps
                  /\ DOMAIN sessions'[proc'.session_id].steps
                        = DOMAIN sessions[proc'.session_id].steps \cup {str(proc'.step)}
                  /\ get_current_step(FSnext, proc'.session_id) = proc'.step
                  /\ Holds(FilesOf(FSnext, proc'.session_id, proc'.step), "query",
                           proc'.data.query[1])
                  /\ Holds(FilesOf(FSnext, proc'.session_id, proc'.step), target,
                           proc'.results[target].content)]_vars

\* a single run that got as far as the backend call
SingleRun == calls' # calls /\ proc'.mode = "single" /\ proc'.prompts # << >>

\* C24 (as stated): when the backend call of a single-model query fails, the
\* command reports the failure and exits non-zero, and the store is as before
\* the command: no session and no step was created, the metadata (current
\* step) and the artifacts of every session and the current-session marker
\* are unchanged.
C24_SingleFailureNoTrace ==
    [][SingleRun =>
        \A key \in DOMAIN proc'.results :
           ~proc'.results[key].success =>
               /\ proc'.pc = "exited" /\ proc'.code # 0 /\ proc'.error # ""
               /\ DOMAIN sessions' = DOMAIN sessions
               /\ sessions' = sessions
               /\ current' = current]_vars

\* C25: in every state the current-session marker is absent or names exactly
\* one session, and the container of that session exists: get_current_session
\* returns none or the id of a session get_session_path resolves.
C25_MarkerNamesSession ==
    /\ Len(current) <= 1
    /\ get_current_session(FS) # << >> =>
          /\ get_current_session(FS)[1] \in DOMAIN sessions
          /\ get_session_path(FS, NoSession).ok

\* the current session was cleared while an older session is still there: no
\* session is current
C25_Witness ==
    /\ ret.op = "clear_session" /\ ret.ok
    /\ current = << >>
    /\ sessions # << >>
    /\ ret.sid \notin DOMAIN sessions

====
